---- MODULE Spec2Model ----
(***************************************************************************)
(* Model of the App component of src/src/App.jsx: the monitoring loop      *)
(* (toggleMonitoring / analyzeFrame), the speech channel (speakText) and   *)
(* the event sink adapter (logEvent).                                      *)
(*                                                                         *)
(* Every handler of the component runs to completion on the single         *)
(* JavaScript thread, so one action is one handler (or the part of an      *)
(* async function between two awaits).  React re-renders between two       *)
(* events, so event handlers read the current state; the callback handed   *)
(* to setInterval is the analyzeFrame closure of the render in which       *)
(* toggleMonitoring ran, and keeps the mode of that render.                *)
(***************************************************************************)
EXTENDS Integers, Sequences, FiniteSets, Bags, TLC

(* ---------------- bounds ---------------- *)
\* number of interval handles the timer table can hold
MaxTimers == 2
\* number of fetch calls that can be pending at the same time
MaxInflight == 2

(* ---------------- literals of the source ---------------- *)
UNDEFINED == "undefined"
READY == "Mom is ready."
PAUSED == "Monitoring paused."
WATCHING == "Mom is watching..."
HAPPY == "Mom is happy."
CAMERA_UNAVAILABLE == "Camera unavailable."

Modes == {"homework", "eating"}
\* the value typed into the settings panel: empty or some key
Keys == {"", "key"}
\* messages a verdict can carry
Messages == {"Sit up straight", "Eat your food"}
Handles == 1..MaxTimers
\* what useState holds as lastMessage at one time or another
StoredMessages ==
  {READY, PAUSED, WATCHING, HAPPY, CAMERA_UNAVAILABLE, UNDEFINED} \cup Messages
\* tag of a cycle whose beginning was not observed
UNOBSERVED == "unobserved"

(* ---------------- the API response ---------------- *)
\* candidate text: json says what JSON.parse makes of it
\*   "invalid" not JSON, "null" the JSON null, "scalar" a JSON number or
\*   string, "object" an object with the given status and message members
\*   (UNDEFINED when the member is absent)
Text(j, s, m) == [json |-> j, status |-> s, message |-> m]
\* (the message of an object whose status is not "bad" is never read: one
\* message stands for all of them)
Texts ==
  {Text("invalid", UNDEFINED, UNDEFINED), Text("null", UNDEFINED, UNDEFINED),
   Text("scalar", UNDEFINED, UNDEFINED)}
  \cup {Text("object", "bad", m) : m \in Messages \cup {UNDEFINED}}
  \cup {Text("object", s, "Well done") : s \in {"good", "maybe", UNDEFINED}}
\* the candidate texts tried with a non-success HTTP status as well
ErrorTexts ==
  {Text("invalid", UNDEFINED, UNDEFINED),
   Text("object", "bad", "Sit up straight"),
   Text("object", "good", "Well done")}
NoText == Text("none", UNDEFINED, UNDEFINED)

\* net: "reject" fetch rejects, "resolve" fetch resolves with a response
\* ok: the HTTP status is a success status
\* body: "notjson" response.json() rejects, "nocandidates" a JSON body
\*       without candidates[0].content.parts[0].text, "candidates" a body
\*       carrying the candidate text
Response(n, k, b, t) == [net |-> n, ok |-> k, body |-> b, text |-> t]
Responses ==
  {Response("reject", FALSE, "none", NoText)}
  \cup {Response("resolve", k, b, NoText) :
          k \in BOOLEAN, b \in {"notjson", "nocandidates"}}
  \cup {Response("resolve", TRUE, "candidates", t) : t \in Texts}
  \cup {Response("resolve", FALSE, "candidates", t) : t \in ErrorTexts}
NoResponse == Response("none", FALSE, "none", NoText)

VARIABLES
  mounted,       \* the component is mounted (refs attached, state alive)
  isActive,      \* useState(false)
  mode,          \* useState('homework')
  status,        \* useState('idle')
  lastMessage,   \* useState("Mom is ready.")
  settingsOpen,  \* useState(false)
  apiKey,        \* useState(GEMINI_API_KEY)
  intervalRef,   \* intervalRef.current: 0 is null, else a handle
  timers,        \* live setInterval timers: handle -> closure of the callback
  camera,        \* getUserMedia: "pending", "live", "failed", "stopped"
  inflight,      \* bag of pending fetch calls, each the closure of its cycle
                 \* and, as an observation, the message stored when it began
  synthQueue,    \* utterances handed to window.speechSynthesis, head is spoken
  synthAvail,    \* window.speechSynthesis exists
  db,            \* module-level db: TRUE when Firestore was initialised
  pendingWrites, \* TRUE while some addDoc call has not settled
  lastCall       \* observation: the handler that ran last and what it did

vars == <<mounted, isActive, mode, status, lastMessage, settingsOpen, apiKey,
          intervalRef, timers, camera, inflight, synthQueue, synthAvail, db,
          pendingWrites, lastCall>>

\* what lastCall records: the handler ("init", "stop", "start",
\* "MissingCredential", "tick", "cycle", "unmount", "logError" for a failed
\* sink write, or "other" for the controls and the devices), and for a cycle continuation the
\* response it consumed, the arguments of the speakText and logEvent calls
\* it made, whether an exception left the handler and whether speakText
\* threw
Call(op, r, a, l, e) ==
  [op |-> op, resp |-> r, announced |-> a, recorded |-> l, escaped |-> e,
   speakThrew |-> FALSE]
Plain(op) == Call(op, NoResponse, <<>>, <<>>, FALSE)


(* ---------------- helpers ---------------- *)
\* a React state setter: an update of an unmounted component is dropped
SetState(cur, new) == IF mounted THEN new ELSE cur

\* clearInterval(id): the timer with that handle, if any, stops
clearInterval(id) == [h \in DOMAIN timers \ {id} |-> timers[h]]

\* setInterval returns a handle that names no live timer
FreeHandles == Handles \ DOMAIN timers
NewHandle == CHOOSE h \in FreeHandles : \A g \in FreeHandles : h <= g

Init ==
  /\ mounted = TRUE
  /\ isActive = FALSE
  /\ mode = "homework"
  /\ status = "idle"
  /\ lastMessage = READY
  /\ settingsOpen = FALSE
  /\ apiKey \in Keys
  /\ intervalRef = 0
  /\ timers = [h \in {} |-> [mode |-> "homework"]]
  /\ camera = "pending"
  /\ inflight = EmptyBag
  /\ synthQueue = <<>>
  /\ synthAvail \in BOOLEAN
  /\ db \in BOOLEAN
  /\ pendingWrites = FALSE
  /\ lastCall = Plain("init")

(* ---------------- camera and mount lifecycle ---------------- *)
\* startCamera, getUserMedia resolved: the stream is attached to the video
\* element when the element still exists
CameraGranted ==
  /\ camera = "pending"
  /\ camera' = IF mounted THEN "live" ELSE "detached"
  /\ lastCall' = Plain("other")
  /\ UNCHANGED <<mounted, isActive, mode, status, lastMessage, settingsOpen,
                 apiKey, intervalRef, timers, inflight, synthQueue,
                 synthAvail, db, pendingWrites>>

\* startCamera, getUserMedia rejected
CameraDenied ==
  /\ camera = "pending"
  /\ camera' = "failed"
  /\ lastMessage' = SetState(lastMessage, CAMERA_UNAVAILABLE)
  /\ lastCall' = Plain("other")
  /\ UNCHANGED <<mounted, isActive, mode, status, settingsOpen, apiKey,
                 intervalRef, timers, inflight, synthQueue, synthAvail, db,
                 pendingWrites>>

\* stopCamera: the tracks of an attached stream are stopped
stopCamera == IF camera = "live" THEN "stopped" ELSE camera

\* the cleanup of the mount effect: the component goes away, its refs become
\* null; the cleanup calls stopCamera and nothing else
Unmount ==
  /\ mounted
  /\ mounted' = FALSE
  /\ camera' = stopCamera
  /\ lastCall' = Plain("unmount")
  /\ UNCHANGED <<isActive, mode, status, lastMessage, settingsOpen, apiKey,
                 intervalRef, timers, inflight, synthQueue, synthAvail, db,
                 pendingWrites>>

(* ---------------- toggleMonitoring ---------------- *)
\* StopBranch without the clearInterval call
StopBranch_NoClear ==
  /\ isActive' = FALSE
  /\ status' = "idle"
  /\ lastMessage' = PAUSED
  /\ lastCall' = Plain("stop")
  /\ UNCHANGED <<intervalRef, settingsOpen, timers>>

\* the isActive branch
StopBranch ==
  /\ timers' = clearInterval(intervalRef)
  /\ isActive' = FALSE
  /\ status' = "idle"
  /\ lastMessage' = PAUSED
  /\ lastCall' = Plain("stop")
  /\ UNCHANGED <<intervalRef, settingsOpen>>

\* StartBranch without the apiKey check
StartBranch_NoKeyCheck ==
  /\ FreeHandles # {}
  /\ isActive' = TRUE
  /\ lastMessage' = WATCHING
  /\ intervalRef' = NewHandle
  /\ timers' = [h \in DOMAIN timers \cup {NewHandle} |->
                  IF h = NewHandle THEN [mode |-> mode] ELSE timers[h]]
  /\ lastCall' = Plain("start")
  /\ UNCHANGED <<status, settingsOpen>>

\* the else branch
StartBranch ==
  IF apiKey = ""
  THEN /\ settingsOpen' = TRUE
       /\ lastCall' = Plain("MissingCredential")
       /\ UNCHANGED <<isActive, status, lastMessage, intervalRef, timers>>
  ELSE /\ FreeHandles # {}
       /\ isActive' = TRUE
       /\ lastMessage' = WATCHING
       /\ intervalRef' = NewHandle
       /\ timers' = [h \in DOMAIN timers \cup {NewHandle} |->
                       IF h = NewHandle THEN [mode |-> mode] ELSE timers[h]]
       /\ lastCall' = Plain("start")
       /\ UNCHANGED <<status, settingsOpen>>

toggleMonitoring ==
  /\ mounted
  /\ IF isActive THEN StopBranch ELSE StartBranch
  /\ UNCHANGED <<mounted, mode, apiKey, camera, inflight, synthQueue,
                 synthAvail, db, pendingWrites>>

(* ---------------- controls ---------------- *)
\* mode buttons that stay available during a session
SetMode_Anytime(m) ==
  /\ mounted
  /\ mode' = m
  /\ lastCall' = Plain("other")
  /\ UNCHANGED <<mounted, isActive, status, lastMessage, settingsOpen, apiKey,
                 intervalRef, timers, camera, inflight, synthQueue,
                 synthAvail, db, pendingWrites>>

\* the mode buttons, rendered only while the session is not active
SetMode(m) ==
  /\ mounted
  /\ ~isActive
  /\ mode' = m
  /\ lastCall' = Plain("other")
  /\ UNCHANGED <<mounted, isActive, status, lastMessage, settingsOpen, apiKey,
                 intervalRef, timers, camera, inflight, synthQueue,
                 synthAvail, db, pendingWrites>>

\* the settings button of the top bar
ToggleSettings ==
  /\ mounted
  /\ settingsOpen' = ~settingsOpen
  /\ lastCall' = Plain("other")
  /\ UNCHANGED <<mounted, isActive, mode, status, lastMessage, apiKey,
                 intervalRef, timers, camera, inflight, synthQueue,
                 synthAvail, db, pendingWrites>>

\* the key input of the settings panel
SetApiKey(k) ==
  /\ mounted
  /\ settingsOpen
  /\ apiKey' = k
  /\ lastCall' = Plain("other")
  /\ UNCHANGED <<mounted, isActive, mode, status, lastMessage, settingsOpen,
                 intervalRef, timers, camera, inflight, synthQueue,
                 synthAvail, db, pendingWrites>>

\* the Save & Close button of the settings panel
CloseSettings ==
  /\ mounted
  /\ settingsOpen
  /\ settingsOpen' = FALSE
  /\ lastCall' = Plain("other")
  /\ UNCHANGED <<mounted, isActive, mode, status, lastMessage, apiKey,
                 intervalRef, timers, camera, inflight, synthQueue,
                 synthAvail, db, pendingWrites>>


(* ---------------- analyzeFrame, up to the fetch ---------------- *)
\* a firing that is skipped while an earlier cycle is pending
Tick_Guarded(h) ==
  /\ h \in DOMAIN timers
  /\ IF ~mounted \/ inflight # EmptyBag
     THEN UNCHANGED <<status, inflight>>
     ELSE /\ status' = "analyzing"
          /\ inflight' = inflight (+)
                SetToBag({[mode |-> timers[h].mode, began |-> UNOBSERVED]})
  /\ lastCall' = Plain("tick")
  /\ UNCHANGED <<mounted, isActive, mode, lastMessage, settingsOpen, apiKey,
                 intervalRef, timers, camera, synthQueue, synthAvail, db,
                 pendingWrites>>

\* one firing of the interval timer h: analyzeFrame of the captured closure
\* runs up to its first await.  With the refs null (unmounted) it returns at
\* once; otherwise the status becomes analyzing, the frame is drawn and the
\* request is issued (with whatever the canvas holds: nothing on this path
\* looks at the stream, and no later step depends on the frame).
Tick(h) ==
  /\ h \in DOMAIN timers
  /\ IF ~mounted
     THEN UNCHANGED <<status, inflight>>
     ELSE /\ BagCardinality(inflight) < MaxInflight
          /\ status' = "analyzing"
          /\ inflight' = inflight (+)
                SetToBag({[mode |-> timers[h].mode, began |-> UNOBSERVED]})
  /\ lastCall' = Plain("tick")
  /\ UNCHANGED <<mounted, isActive, mode, lastMessage, settingsOpen, apiKey,
                 intervalRef, timers, camera, synthQueue, synthAvail, db,
                 pendingWrites>>

\* the same firing with an observer attached: the request is tagged with the
\* message stored at the moment the cycle begins.  The observer follows a
\* cycle that begins while no other is pending.
TickObserved(h) ==
  /\ mounted
  /\ h \in DOMAIN timers
  /\ inflight = EmptyBag
  /\ BagCardinality(inflight) < MaxInflight
  /\ status' = "analyzing"
  /\ inflight' = inflight (+)
        SetToBag({[mode |-> timers[h].mode, began |-> lastMessage]})
  /\ lastCall' = Plain("tick")
  /\ UNCHANGED <<mounted, isActive, mode, lastMessage, settingsOpen, apiKey,
                 intervalRef, timers, camera, synthQueue, synthAvail, db,
                 pendingWrites>>

(* ---------------- analyzeFrame, after the fetch ---------------- *)
\* a JSON.parse that never throws
JSON_parse_Lenient(t) == [threw |-> FALSE, value |-> t]

\* JSON.parse(text): throws on text that is not JSON
JSON_parse(t) ==
  IF t.json = "invalid" THEN [threw |-> TRUE, value |-> t]
                        ELSE [threw |-> FALSE, value |-> t]

Threw == [threw |-> TRUE, status |-> UNDEFINED, message |-> UNDEFINED]

\* the awaits and the parse of the try block, and the reads of result.status
\* and result.message: either something throws, or result is at hand.  The
\* HTTP status of the response (r.ok) is not looked at.
AwaitResult(r) ==
  IF r.net = "reject" THEN Threw
  ELSE IF r.body = "notjson" THEN Threw
  ELSE IF r.body = "nocandidates" THEN Threw
  ELSE LET p == JSON_parse(r.text)
       IN IF p.threw THEN Threw
          ELSE IF p.value.json = "null" THEN Threw
          ELSE [threw |-> FALSE, status |-> p.value.status,
                message |-> p.value.message]

\* speakText without the synth.speaking check
speakText_NoSpeakingCheck(text) ==
  IF ~synthAvail THEN synthQueue ELSE Append(synthQueue, text)

\* speakText(text): the queue of the speech device after the call.
\* synth.speaking is true exactly while the device holds an utterance: an
\* utterance handed to an idle device is spoken at once.
speakText(text) ==
  IF ~synthAvail \/ synthQueue # <<>> THEN synthQueue
  ELSE Append(synthQueue, text)

\* the document logEvent hands to addDoc (timestamp and uid are the sink's)
EventRecord(m, message, type) == [mode |-> m, message |-> message, type |-> type]

\* logEvent(message, type): without db it returns at once, else it calls
\* addDoc and awaits it; the value is whether a write is pending afterwards
logEvent(message, type) == IF ~db THEN pendingWrites ELSE TRUE

\* BadBranch without the speakText call
BadBranch_Silent(c, r, message) ==
  /\ status' = SetState(status, "warning")
  /\ lastMessage' = SetState(lastMessage, message)
  /\ pendingWrites' = logEvent(message, "violation")
  /\ lastCall' = Call("cycle", r, <<>>,
                      <<EventRecord(c.mode, message, "violation")>>, FALSE)
  /\ UNCHANGED synthQueue

\* result.status === 'bad'
BadBranch(c, r, message) ==
  /\ status' = SetState(status, "warning")
  /\ lastMessage' = SetState(lastMessage, message)
  /\ synthQueue' = speakText(message)
  /\ pendingWrites' = logEvent(message, "violation")
  /\ lastCall' = Call("cycle", r, <<message>>,
                      <<EventRecord(c.mode, message, "violation")>>, FALSE)

\* GoodBranch that speaks its affirmation
GoodBranch_Spoken(c, r) ==
  /\ status' = SetState(status, "good")
  /\ lastMessage' = SetState(lastMessage, HAPPY)
  /\ synthQueue' = speakText(HAPPY)
  /\ lastCall' = Call("cycle", r, <<HAPPY>>, <<>>, FALSE)
  /\ UNCHANGED pendingWrites

\* else
GoodBranch(c, r) ==
  /\ status' = SetState(status, "good")
  /\ lastMessage' = SetState(lastMessage, HAPPY)
  /\ lastCall' = Call("cycle", r, <<>>, <<>>, FALSE)
  /\ UNCHANGED <<synthQueue, pendingWrites>>

\* a catch block that also replaces the message
CatchBlock_ShowsError(c, r) ==
  /\ status' = SetState(status, "error")
  /\ lastMessage' = SetState(lastMessage, READY)
  /\ lastCall' = Call("cycle", r, <<>>, <<>>, FALSE)
  /\ UNCHANGED <<synthQueue, pendingWrites>>

\* catch (error)
CatchBlock(c, r) ==
  /\ status' = SetState(status, "error")
  /\ lastCall' = Call("cycle", r, <<>>, <<>>, FALSE)
  /\ UNCHANGED <<lastMessage, synthQueue, pendingWrites>>

\* the rest of the try block once the fetch of cycle c has settled with r
Continue(c, r) ==
  LET result == AwaitResult(r)
  IN IF result.threw THEN CatchBlock(c, r)
     ELSE IF result.status = "bad" THEN BadBranch(c, r, result.message)
     ELSE GoodBranch(c, r)

\* a Resolve that issues the request again when the cycle failed
Resolve_Retry(c, r) ==
  /\ BagIn(c, inflight)
  /\ inflight' = IF AwaitResult(r).threw THEN inflight
                 ELSE inflight (-) SetToBag({c})
  /\ Continue(c, r)
  /\ UNCHANGED <<mounted, isActive, mode, settingsOpen, apiKey, intervalRef,
                 timers, camera, synthAvail, db>>

\* the pending fetch of cycle c settles with r and analyzeFrame runs to its end
Resolve(c, r) ==
  /\ BagIn(c, inflight)
  /\ inflight' = inflight (-) SetToBag({c})
  /\ Continue(c, r)
  /\ UNCHANGED <<mounted, isActive, mode, settingsOpen, apiKey, intervalRef,
                 timers, camera, synthAvail, db>>

(* ---------------- the devices ---------------- *)
\* the utterance being spoken ends (or fails): the device drops it
SpeechEnd ==
  /\ synthQueue # <<>>
  /\ synthQueue' = Tail(synthQueue)
  /\ lastCall' = Plain("other")
  /\ UNCHANGED <<mounted, isActive, mode, status, lastMessage, settingsOpen,
                 apiKey, intervalRef, timers, camera, inflight, synthAvail,
                 db, pendingWrites>>

\* a LogSettle whose rejection reaches the status
LogSettle_Rethrow(ok) ==
  /\ pendingWrites
  /\ pendingWrites' \in BOOLEAN
  /\ lastCall' = Plain(IF ok THEN "other" ELSE "logError")
  /\ status' = IF ok THEN status ELSE "error"
  /\ UNCHANGED <<mounted, isActive, mode, lastMessage, settingsOpen,
                 apiKey, intervalRef, timers, camera, inflight, synthQueue,
                 synthAvail, db>>

\* a pending addDoc settles (others may remain pending); a rejection
\* (ok = FALSE) is caught and logged to the console inside logEvent
LogSettle(ok) ==
  /\ pendingWrites
  /\ pendingWrites' \in BOOLEAN
  /\ lastCall' = Plain(IF ok THEN "other" ELSE "logError")
  /\ UNCHANGED <<mounted, isActive, mode, status, lastMessage, settingsOpen,
                 apiKey, intervalRef, timers, camera, inflight, synthQueue,
                 synthAvail, db>>

Requests == [mode : Modes, began : {UNOBSERVED} \cup StoredMessages]

\* the component while it is mounted
Next ==
  \/ CameraGranted
  \/ CameraDenied
  \/ toggleMonitoring
  \/ \E m \in Modes : SetMode(m)
  \/ ToggleSettings
  \/ \E k \in Keys : SetApiKey(k)
  \/ CloseSettings
  \/ \E h \in Handles : Tick(h)
  \/ \E c \in BagToSet(inflight), r \in Responses : Resolve(c, r)
  \/ SpeechEnd
  \/ \E ok \in BOOLEAN : LogSettle(ok)

Spec == Init /\ [][Next]_vars

\* the component and its teardown: the timers, the pending requests and the
\* devices outlive the unmount
NextTeardown ==
  \/ Next
  \/ Unmount

SpecTeardown == Init /\ [][NextTeardown]_vars

(* ---------------- a speech device that throws ---------------- *)
\* the bad branch when speakText throws: synth exists and is not speaking,
\* so speakText gets past its early return, and building or speaking the
\* utterance raises.  The exception leaves speakText (it has no handler of
\* its own) and lands in the catch of analyzeFrame: setStatus('warning') and
\* setLastMessage have run, logEvent is skipped, the status becomes error.
SpeakThrows(c, r, message) ==
  /\ synthAvail
  /\ synthQueue = <<>>
  /\ status' = SetState(status, "error")
  /\ lastMessage' = SetState(lastMessage, message)
  /\ lastCall' = [Call("cycle", r, <<message>>, <<>>, FALSE)
                    EXCEPT !.speakThrew = TRUE]
  /\ UNCHANGED <<synthQueue, pendingWrites>>

\* the pending fetch of cycle c settles with a bad verdict and speakText
\* throws
ResolveSpeakThrows(c, r) ==
  /\ BagIn(c, inflight)
  /\ inflight' = inflight (-) SetToBag({c})
  /\ LET result == AwaitResult(r)
     IN /\ ~result.threw
        /\ result.status = "bad"
        /\ SpeakThrows(c, r, result.message)
  /\ UNCHANGED <<mounted, isActive, mode, settingsOpen, apiKey, intervalRef,
                 timers, camera, synthAvail, db>>

\* the mounted component with a speech device that may throw
NextSpeechFault ==
  \/ Next
  \/ \E c \in BagToSet(inflight), r \in Responses : ResolveSpeakThrows(c, r)

SpecSpeechFault == Init /\ [][NextSpeechFault]_vars

\* the mounted component with an observer that can follow one cycle from its
\* beginning; the settings panel and the mode buttons are left alone
NextObserved ==
  \/ CameraGranted
  \/ CameraDenied
  \/ toggleMonitoring
  \/ \E h \in Handles : Tick(h)
  \/ \E h \in Handles : TickObserved(h)
  \/ \E c \in BagToSet(inflight), r \in Responses : Resolve(c, r)
  \/ SpeechEnd
  \/ \E ok \in BOOLEAN : LogSettle(ok)

SpecObserved == Init /\ [][NextObserved]_vars


(* ======================= properties ======================= *)
\* the step is the continuation of a cycle (only Resolve takes a request
\* out of inflight, and it records "cycle")
CycleStep == lastCall'.op = "cycle" /\ inflight' # inflight
AnyTick == \E h \in Handles : Tick(h)
NoTimer == DOMAIN timers = {}

\* the last handler was the continuation of a cycle whose response carried
\* candidate text that parsed to an object with the given status
VerdictWas(s) ==
  /\ lastCall.op = "cycle"
  /\ lastCall.resp.body = "candidates"
  /\ lastCall.resp.text.json = "object"
  /\ lastCall.resp.text.status = s

\* C1: a network call that resolves after stop() is discarded: the status
\* and the message stay as stop() left them, and no announce or record call
\* is made.
C1_LateResultDiscarded ==
  [][(CycleStep /\ mounted /\ ~isActive)
       => /\ UNCHANGED <<status, lastMessage>>
          /\ lastCall'.announced = <<>>
          /\ lastCall'.recorded = <<>>]_vars

\* C2: in either mode, start with an empty credential fails with
\* MissingCredential: the session stays inactive, no timer is scheduled and
\* no request is issued.
C2_StartWithoutCredential ==
  [][(toggleMonitoring /\ ~isActive /\ apiKey = "")
       => /\ lastCall'.op = "MissingCredential"
          /\ ~isActive'
          /\ DOMAIN timers' = {}
          /\ UNCHANGED <<intervalRef, inflight, status, mode>>]_vars

C2_Witness ==
  /\ lastCall.op = "MissingCredential"
  /\ mode = "eating"
  /\ ~isActive /\ NoTimer

\* C3: a cycle of an active session whose verdict is {status: bad, message: M}
\* ends with status warning and message M, one announce call with M and one
\* record call of category violation.
C3_BadVerdict ==
  (mounted /\ isActive /\ VerdictWas("bad"))
    => /\ status = "warning"
       /\ lastMessage = lastCall.resp.text.message
       /\ lastCall.announced = <<lastCall.resp.text.message>>
       /\ Len(lastCall.recorded) = 1
       /\ lastCall.recorded[1].type = "violation"
       /\ lastCall.recorded[1].message = lastCall.resp.text.message

C3_Witness ==
  /\ mounted /\ isActive /\ VerdictWas("bad")
  /\ lastCall.resp.text.message = "Sit up straight"
  /\ status = "warning" /\ lastMessage = "Sit up straight"

\* C4: a cycle of an active session whose verdict has status good ends with
\* status good and the fixed affirmation, and makes no announce and no record
\* call.
C4_GoodVerdict ==
  (mounted /\ isActive /\ VerdictWas("good"))
    => /\ status = "good"
       /\ lastMessage = HAPPY
       /\ lastCall.announced = <<>>
       /\ lastCall.recorded = <<>>

C4_Witness ==
  /\ mounted /\ isActive /\ VerdictWas("good")
  /\ status = "good" /\ lastMessage = HAPPY

\* C5: an announce call made while an utterance is in progress delivers
\* nothing to the speech device, and the device never holds more than one
\* utterance.
C5_SingleUtterance ==
  /\ [](Len(synthQueue) <= 1)
  /\ [][(CycleStep /\ lastCall'.announced # <<>> /\ synthQueue # <<>>)
          => UNCHANGED synthQueue]_vars

\* an announce call was made for one message while the device was speaking
\* another
C5_Witness ==
  /\ lastCall.op = "cycle"
  /\ lastCall.announced # <<>>
  /\ synthQueue # <<>>
  /\ synthQueue[1] # lastCall.announced[1]

\* C6: a cycle whose candidate text is not valid JSON ends with status error,
\* and nothing is thrown out of the handler.
C6_MalformedResponse ==
  (mounted /\ lastCall.op = "cycle" /\ lastCall.resp.body = "candidates"
     /\ lastCall.resp.text.json = "invalid")
    => /\ status = "error"
       /\ ~lastCall.escaped
       /\ lastCall.announced = <<>>
       /\ lastCall.recorded = <<>>

C6_Witness ==
  /\ mounted /\ isActive
  /\ lastCall.op = "cycle" /\ lastCall.resp.body = "candidates"
  /\ lastCall.resp.text.json = "invalid"
  /\ status = "error"

\* C7: stop() is idempotent: a stop() call right after a stop() call leaves
\* the status idle with the paused message, the session inactive and no timer
\* scheduled, and raises no error.
C7_StopIdempotent ==
  [][(lastCall.op = "stop" /\ toggleMonitoring)
       => /\ status' = "idle"
          /\ lastMessage' = PAUSED
          /\ ~isActive'
          /\ DOMAIN timers' = {}
          /\ lastCall'.op # "MissingCredential"]_vars

\* C8: stop() on an active session cancels the timer and sets the status to
\* idle with the paused message; while the session is stopped no timer is
\* scheduled and no tick fires.
C8_StopCancels ==
  /\ [](~isActive => NoTimer)
  /\ [][(toggleMonitoring /\ isActive)
          => /\ DOMAIN timers' = {}
             /\ ~isActive'
             /\ status' = "idle"
             /\ lastMessage' = PAUSED]_vars
  /\ [][~isActive => ~AnyTick]_vars

\* stop() was called while a request was pending
C8_Witness ==
  /\ lastCall.op = "stop"
  /\ inflight # EmptyBag
  /\ NoTimer /\ status = "idle" /\ lastMessage = PAUSED

\* C9: right after a successful start the status is idle with the watching
\* message and a timer is scheduled.
C9_StartIdleWatching ==
  lastCall.op = "start"
    => /\ status = "idle"
       /\ lastMessage = WATCHING
       /\ ~NoTimer

\* C10 (under SpecTeardown): teardown of an active session cancels the timer
\* and resets the status to idle, and no tick fires after teardown.
C10_TeardownDestroysSession ==
  [][/\ (Unmount /\ isActive) => (DOMAIN timers' = {} /\ status' = "idle")
     /\ ~mounted => ~AnyTick]_vars


\* C11 (under SpecSpeechFault): an error raised by speakText during a
\* bad-verdict cycle is swallowed: the status stays warning with the verdict's
\* message and the rest of the cycle (the record call) still runs.
C11_SpeechErrorSwallowed ==
  (mounted /\ lastCall.op = "cycle" /\ lastCall.speakThrew)
    => /\ status = "warning"
       /\ lastMessage = lastCall.resp.text.message
       /\ Len(lastCall.recorded) = 1

\* the step is the settling of a sink write
LogSettleStep == \E ok \in BOOLEAN : LogSettle(ok)

\* C12: record is best-effort: without a sink a record call writes nothing; a
\* sink write that fails, succeeds or stays pending changes neither the status
\* nor the message nor the session; the cycle that recorded ends with status
\* warning; the session stays active with its timer scheduled.
C12_RecordBestEffort ==
  /\ [][(CycleStep /\ ~db) => (~pendingWrites' /\ ~pendingWrites)]_vars
  /\ [][LogSettleStep
          => UNCHANGED <<status, lastMessage, isActive, timers, intervalRef,
                         inflight, synthQueue>>]_vars
  /\ []((mounted /\ lastCall.op = "cycle" /\ lastCall.recorded # <<>>)
          => status = "warning")
  /\ []((pendingWrites \/ lastCall.op = "logError")
          => (isActive => ~NoTimer))

\* a sink write has just failed in an active session whose timer is scheduled
\* and whose next cycle is already under way
C12_Witness ==
  /\ lastCall.op = "logError"
  /\ mounted /\ isActive /\ ~NoTimer
  /\ status = "analyzing"
  /\ inflight # EmptyBag


\* a decoded candidate text that is a Verdict per contract
ValidVerdict(t) ==
  /\ t.json = "object"
  /\ \/ t.status = "good"
     \/ t.status = "bad" /\ t.message \notin {"", UNDEFINED}

\* C13: candidate text that decodes as JSON but is no valid Verdict ends the
\* cycle with status error; so a warning always has a non-empty message and
\* the status is good only after a verdict with status good.
C13_OnlyContractVerdicts ==
  /\ (mounted /\ lastCall.op = "cycle" /\ lastCall.resp.body = "candidates"
        /\ lastCall.resp.text.json # "invalid"
        /\ ~ValidVerdict(lastCall.resp.text))
       => status = "error"
  /\ status = "warning" => lastMessage \notin {"", UNDEFINED}
  /\ (lastCall.op = "cycle" /\ status = "good") => VerdictWas("good")

\* C14: a cycle whose fetch rejects or whose response has a non-success HTTP
\* status ends with status error, without announce or record call, and
\* nothing is thrown out of the handler.
C14_TransportError ==
  (mounted /\ lastCall.op = "cycle"
     /\ (lastCall.resp.net = "reject" \/ ~lastCall.resp.ok))
    => /\ status = "error"
       /\ lastCall.announced = <<>>
       /\ lastCall.recorded = <<>>
       /\ ~lastCall.escaped

\* the step is a firing of the timer
TickStep == lastCall'.op = "tick" /\ AnyTick

\* C15: a cycle that runs while no live stream is attached ends with status
\* error at capture and issues no network call.
C15_SourceUnavailable ==
  [][(TickStep /\ mounted /\ camera # "live")
       => (status' = "error" /\ inflight' = inflight)]_vars


\* the last handler was the continuation of a cycle whose fetch, body or
\* candidate text made the try block throw
CycleFailed == lastCall.op = "cycle" /\ AwaitResult(lastCall.resp).threw

\* C16: no retry: the continuation of a cycle issues no request (only a tick
\* does, and exactly one); a failed cycle leaves the session active and its
\* timer scheduled, and the next tick can start a fresh cycle.
C16_NoRetry ==
  /\ [][lastCall'.op = "cycle"
          => BagCardinality(inflight') = BagCardinality(inflight) - 1]_vars
  /\ [][BagCardinality(inflight') > BagCardinality(inflight)
          => /\ TickStep
             /\ BagCardinality(inflight') = BagCardinality(inflight) + 1]_vars
  /\ [][CycleFailed' => UNCHANGED <<isActive, timers, intervalRef>>]_vars
  /\ []((CycleFailed /\ mounted /\ isActive) => (~NoTimer /\ ENABLED AnyTick))

\* a cycle of an active session has just failed on a rejected fetch
C16_Witness ==
  /\ CycleFailed
  /\ lastCall.resp.net = "reject"
  /\ mounted /\ isActive /\ ~NoTimer
  /\ status = "error"

\* C17: the mode cannot change during a session: the timer's callback holds
\* the mode selected at start, every request a tick issues carries it, and an
\* event a cycle records carries the mode of that cycle's request.
C17_ModeImmutable ==
  /\ [](isActive => \A h \in DOMAIN timers : timers[h].mode = mode)
  /\ [][mode' # mode => (~isActive /\ ~isActive')]_vars
  /\ [][(TickStep /\ isActive)
          => \E c \in BagToSet(inflight') :
               c.mode = mode /\ inflight' = inflight (+) SetToBag({c})]_vars
  /\ [][(lastCall'.op = "cycle" /\ lastCall'.recorded # <<>>)
          => \E c \in BagToSet(inflight) :
               /\ c.mode = lastCall'.recorded[1].mode
               /\ inflight' = inflight (-) SetToBag({c})]_vars

\* a cycle of a session started in eating mode has recorded an event
C17_Witness ==
  /\ lastCall.op = "cycle"
  /\ lastCall.recorded # <<>>
  /\ lastCall.recorded[1].mode = "eating"
  /\ mounted /\ isActive /\ mode = "eating"


\* the observed cycle is the one whose fetch settles in this step
ObservedSettles(c) ==
  /\ c.began # UNOBSERVED
  /\ inflight' = inflight (-) SetToBag({c})

\* C18 as stated, for a cycle of a running session with a live camera: a
\* cycle that fails sets the status to error, and the message after it equals
\* the message that was stored when the cycle began.
C18_MessageAsBeforeCycle ==
  [][(CycleStep /\ CycleFailed' /\ isActive /\ camera = "live")
       => /\ status' = "error"
          /\ \A c \in BagToSet(inflight) :
               ObservedSettles(c) => lastMessage' = c.began]_vars

\* C18, amended: a cycle whose fetch, body or candidate text fails sets the
\* status to error, and its handler does not write the message: the message
\* after the handler equals the message stored right before the fetch settled.
C18_FailedCycleKeepsMessage ==
  [][(CycleStep /\ CycleFailed')
       => (status' = "error" /\ lastMessage' = lastMessage)]_vars

\* a cycle failed in a running session and the message it leaves is the one
\* an earlier cycle wrote
C18_Witness ==
  /\ CycleFailed
  /\ mounted /\ isActive
  /\ status = "error"
  /\ lastMessage \in Messages \cup {HAPPY}
  /\ \A c \in BagToSet(inflight) : c.began = UNOBSERVED


\* C19 as stated: within a session at most one cycle is in flight.
C19_AtMostOneInFlight == isActive => BagCardinality(inflight) <= 1

\* C19, amended: there is no in-flight guard.  Every firing of the timer in
\* the mounted component starts a new cycle and writes the status, whether or
\* not an earlier cycle is still pending, so cycles can overlap.
C19_TickAlwaysStartsCycle ==
  [][(TickStep /\ mounted)
       => /\ BagCardinality(inflight') = BagCardinality(inflight) + 1
          /\ status' = "analyzing"]_vars

\* a tick of a running session has started a second cycle while the first is
\* pending
C19_Witness ==
  /\ lastCall.op = "tick"
  /\ mounted /\ isActive
  /\ BagCardinality(inflight) = 2
  /\ status = "analyzing"

\* C20: a timer is scheduled exactly when the session is active, there is
\* never more than one, and intervalRef names it.
C20_OneTimerIffActive ==
  /\ isActive <=> ~NoTimer
  /\ Cardinality(DOMAIN timers) <= 1
  /\ isActive => DOMAIN timers = {intervalRef}

\* a session started again while a cycle of an earlier session is pending
C20_Witness ==
  /\ lastCall.op = "start"
  /\ mounted /\ isActive
  /\ inflight # EmptyBag
  /\ Cardinality(DOMAIN timers) = 1

====
